---- MODULE Spec2Model ----
(***************************************************************************)
(* The skills hub of mcps/media-hub/hub.py: one asyncio process that       *)
(* spawns the skill processes, performs the MCP handshake with each,       *)
(* builds TOOL_MAPPING, sets STARTUP_EVENT and then serves list_tools and  *)
(* call_tool by exchanging newline-delimited JSON-RPC lines with the       *)
(* skills over their stdin/stdout pipes, one exchange at a time per skill  *)
(* (SKILL_LOCKS).                                                          *)
(*                                                                         *)
(* A step of the model is the code a task runs between two suspension      *)
(* points (awaiting the event, a lock, or a line of a skill's stdout).     *)
(* A pipe is a log of the lines written to it and a cursor of its reader.  *)
(* A skill answers every request line with exactly one response line and   *)
(* a notification with none (the worker process contract); what it         *)
(* answers, whether it answers at all, and when it exits are free.         *)
(***************************************************************************)
EXTENDS Integers, Sequences, FiniteSets, TLC

\* Number of external requests (list_tools / call_tool calls) the front end receives.
NumCalls == 2

Calls == 1..NumCalls

\* How many failures the environment may produce in one run: spawn failures,
\* skill exits, and response lines that are not a well-formed result.
MaxFaults == 2

\* SKILLS_DIR.iterdir(): two directories with a skill.json, one without.
Dirs == {"A", "B", "N"}

HasManifest(d) == d # "N"

\* manifest["name"] of the descriptors (unique identifiers).
Skills == {d \in Dirs : HasManifest(d)}

\* A tool entry for which Tool(**t) raises.
BadEntry == "bad"

\* The tools/list results a skill may report: "d" is declared by both
\* skills, "B" is a tool of A named like the other skill.
ToolLists(w) ==
  IF w = "A" THEN {<<"x", "d", "B">>, <<"x", BadEntry, "d">>}
             ELSE {<<"d", "y">>}

\* Operation names and payloads of the call_tool requests.
CallNames == {"x", "d", "B", "A", "z"}

Payloads == {"p1", "p2"}

NoTask == <<"none", "-">>
PopulateTask == <<"populate", "-">>
InitTask(w) == <<"init", w>>
CallTask(c) == <<"call", c>>

VARIABLES
  skillsDirExists,  \* SKILLS_DIR.exists()
  pcStartup,        \* position of load_skills_and_initialize
  spawnTask,        \* per directory: state of its spawn_skill task
  initTask,         \* per skill: position of its initialize_skill_process task
  initResult,       \* per skill: what initialize_skill_process returned
  populate,         \* populate_tool_mapping: position and remaining items
  PROCESSES,        \* names in dict insertion order
  MANIFESTS,        \* keys of MANIFESTS
  SKILL_LOCKS,      \* name -> asyncio.Lock: holder and FIFO waiters
  TOOL_MAPPING,     \* tool name -> skill name
  STARTUP_EVENT,    \* asyncio.Event
  alive,            \* per skill: the process is running
  stdin,            \* per skill: lines the hub wrote to proc.stdin
  consumed,         \* per skill: how many of them the skill has handled
  stdout,           \* per skill: lines the skill wrote to its stdout
  readPos,          \* per skill: how many of them the hub has read
  call,             \* per external request: its coroutine's state
  snapshot,         \* the video_snapshot skill: one do_snapshot call
  cleanup           \* the disk_manager skill: one do_execute_cleanup call

vars == <<skillsDirExists, pcStartup, spawnTask, initTask, initResult, populate,
          PROCESSES, MANIFESTS, SKILL_LOCKS, TOOL_MAPPING, STARTUP_EVENT,
          alive, stdin, consumed, stdout, readPos, call, snapshot, cleanup>>

\* The state of the two skill servers modelled below, which the hub never touches.
skillVars == <<snapshot, cleanup>>

startupVars == <<skillsDirExists, pcStartup, spawnTask, initTask, initResult, populate>>
registryVars == <<PROCESSES, MANIFESTS>>
pipeVars == <<stdin, consumed, stdout, readPos>>

(***************************************************************************)
(* Sequences and dictionaries                                              *)
(***************************************************************************)
Range(s) == {s[i] : i \in 1..Len(s)}

DictSet_KeepFirst(d, k, v) ==
  [x \in (DOMAIN d) \cup {k} |-> IF x \in DOMAIN d THEN d[x] ELSE v]

\* d[k] = v on a dict: the key keeps its place when present, else is added.
DictSet(d, k, v) == [x \in (DOMAIN d) \cup {k} |-> IF x = k THEN v ELSE d[x]]

EmptyDict == [x \in {} |-> x]

(***************************************************************************)
(* asyncio.Lock                                                            *)
(***************************************************************************)
NewLock == [holder |-> NoTask, waiters |-> <<>>]

\* lock.acquire() called by task t: t queues behind the earlier waiters.
Enqueue(locks, w, t) ==
  [locks EXCEPT ![w].waiters = Append(@, t)]

Granted_OneLockForAll(w, t) ==
  /\ w \in DOMAIN SKILL_LOCKS
  /\ \A v \in DOMAIN SKILL_LOCKS : SKILL_LOCKS[v].holder = NoTask
  /\ SKILL_LOCKS[w].waiters # <<>>
  /\ Head(SKILL_LOCKS[w].waiters) = t

\* acquire() returns for t: the lock is free and t is the first waiter.
Granted(w, t) ==
  /\ w \in DOMAIN SKILL_LOCKS
  /\ SKILL_LOCKS[w].holder = NoTask
  /\ SKILL_LOCKS[w].waiters # <<>>
  /\ Head(SKILL_LOCKS[w].waiters) = t

Take(locks, w, t) ==
  [locks EXCEPT ![w] = [holder |-> t, waiters |-> Tail(@.waiters)]]

Release_Leak(locks, w) == locks

\* lock.release(), the exit of "async with lock".
Release(locks, w) ==
  [locks EXCEPT ![w].holder = NoTask]

(***************************************************************************)
(* JSON-RPC lines                                                          *)
(***************************************************************************)
\* json.dumps(request) + "\n": one request or notification line.  "by" is
\* the task that wrote the line (history, not on the wire).
Line(method, hasId, name, arguments, t) ==
  [method |-> method, hasId |-> hasId, name |-> name, arguments |-> arguments, by |-> t]

InitRequest(t) == Line("initialize", TRUE, "-", "-", t)

InitializedNotification(t) == Line("notifications/initialized", FALSE, "-", "-", t)

ToolsListRequest(t) == Line("tools/list", TRUE, "-", "-", t)

ToolsCallRequest_NoArguments(name, arguments, t) == Line("tools/call", TRUE, name, "-", t)

\* {"method": "tools/call", "params": {"name": name, "arguments": arguments}, "id": 1}
ToolsCallRequest(name, arguments, t) == Line("tools/call", TRUE, name, arguments, t)

\* proc.stdin.write(line)
Write(pipes, w, line) == [pipes EXCEPT ![w] = Append(@, line)]

\* A response line of skill w to the request at place re of its stdin.
\* kind: "result" ({"result": ...}), "error" ({"error": ...}) or "garbage"
\* (a line json.loads rejects).
Response(w, kind, req, re, tools) ==
  [kind |-> kind,
   tools |-> IF kind = "result" /\ req.method = "tools/list" THEN tools ELSE <<>>,
   content |-> IF kind = "result" /\ req.method = "tools/call"
                 THEN <<w, req.name, req.arguments>> ELSE <<>>,
   re |-> re]

ResponseKinds == {"result", "error", "garbage"}

WellFormed(line) == line.kind = "result" /\ BadEntry \notin Range(line.tools)

\* proc.stdout.readline() has something to return: a line, or b"" at end of stream.
LineReady(w) == readPos[w] < Len(stdout[w])
AtEof(w) == ~LineReady(w) /\ ~alive[w]
NextLine(w) == stdout[w][readPos[w] + 1]

(***************************************************************************)
(* Initial state: the module has been imported, main() has created the     *)
(* startup task, nothing has run.                                          *)
(***************************************************************************)
IdleCall ==
  [op |-> "none", pc |-> "idle", name |-> "-", arguments |-> "-",
   skill |-> "-", todo |-> <<>>, tools |-> <<>>,
   result |-> [kind |-> "none", val |-> <<>>]]

\* No do_snapshot call has been made.
IdleSnapshot ==
  [pc |-> "idle", timestamps |-> <<>>, todo |-> <<>>, files |-> {},
   success_count |-> 0, output_log |-> <<>>,
   summary |-> [error |-> "-", created |-> 0, of |-> 0]]

\* No do_execute_cleanup call has been made.
IdleCleanup ==
  [pc |-> "idle", procedure |-> "-", confirm |-> FALSE, commands |-> <<>>,
   result |-> "-"]

HubInit ==
  /\ skillsDirExists \in BOOLEAN
  /\ pcStartup = "begin"
  /\ spawnTask = [d \in Dirs |-> "none"]
  /\ initTask = [w \in Skills |-> "none"]
  /\ initResult = [w \in Skills |-> "none"]
  /\ populate = [pc |-> "none", todo |-> <<>>]
  /\ PROCESSES = <<>>
  /\ MANIFESTS = {}
  /\ SKILL_LOCKS = EmptyDict
  /\ TOOL_MAPPING = EmptyDict
  /\ STARTUP_EVENT = FALSE
  /\ alive = [w \in Skills |-> FALSE]
  /\ stdin = [w \in Skills |-> <<>>]
  /\ consumed = [w \in Skills |-> 0]
  /\ stdout = [w \in Skills |-> <<>>]
  /\ readPos = [w \in Skills |-> 0]
  /\ call = [c \in Calls |-> IdleCall]

Init ==
  /\ HubInit
  /\ snapshot = IdleSnapshot
  /\ cleanup = IdleCleanup

(***************************************************************************)
(* The skill processes                                                     *)
(***************************************************************************)
\* The failures that have happened so far.
Faults ==
  Cardinality({d \in Dirs : spawnTask[d] = "failed"})
  + Cardinality({w \in Range(PROCESSES) : ~alive[w]})
  + Cardinality(UNION {{<<w, i>> : i \in {j \in 1..Len(stdout[w]) :
                                             ~WellFormed(stdout[w][j])}} :
                       w \in Skills})

\* The skill reads its next stdin line; a request gets one response line,
\* a notification none.
SkillHandle(w) ==
  /\ alive[w]
  /\ consumed[w] < Len(stdin[w])
  /\ LET re == consumed[w] + 1
         req == stdin[w][re]
     IN /\ consumed' = [consumed EXCEPT ![w] = re]
        /\ IF req.hasId
             THEN \E kind \in ResponseKinds, tools \in ToolLists(w) :
                    /\ (req.method # "tools/list" \/ kind # "result")
                         => tools = CHOOSE tl \in ToolLists(w) : TRUE
                    /\ ~WellFormed(Response(w, kind, req, re, tools))
                         => Faults < MaxFaults
                    /\ stdout' = [stdout EXCEPT ![w] =
                                    Append(@, Response(w, kind, req, re, tools))]
             ELSE UNCHANGED stdout
  /\ UNCHANGED <<skillVars, startupVars, registryVars, SKILL_LOCKS, TOOL_MAPPING, STARTUP_EVENT,
                 alive, stdin, readPos, call>>

\* The skill process exits (or closes its stdout): after the lines already
\* written, its stdout is at end of stream.
SkillExit(w) ==
  /\ alive[w]
  /\ Faults < MaxFaults
  /\ alive' = [alive EXCEPT ![w] = FALSE]
  /\ UNCHANGED <<skillVars, startupVars, registryVars, SKILL_LOCKS, TOOL_MAPPING, STARTUP_EVENT,
                 pipeVars, call>>

(***************************************************************************)
(* load_skills_and_initialize                                              *)
(***************************************************************************)
StartupNoSkillsDir_NoSet ==
  /\ pcStartup = "begin"
  /\ ~skillsDirExists
  /\ pcStartup' = "returned"
  /\ UNCHANGED <<skillVars, skillsDirExists, spawnTask, initTask, initResult, populate,
                 registryVars, SKILL_LOCKS, TOOL_MAPPING, STARTUP_EVENT, alive, pipeVars,
                 call>>

\* SKILLS_DIR does not exist: the event is set and the task returns.
StartupNoSkillsDir ==
  /\ pcStartup = "begin"
  /\ ~skillsDirExists
  /\ STARTUP_EVENT' = TRUE
  /\ pcStartup' = "returned"
  /\ UNCHANGED <<skillVars, skillsDirExists, spawnTask, initTask, initResult, populate,
                 registryVars, SKILL_LOCKS, TOOL_MAPPING, alive, pipeVars, call>>

\* 1. One spawn_skill task per directory that has a skill.json.
StartupSpawn ==
  /\ pcStartup = "begin"
  /\ skillsDirExists
  /\ spawnTask' = [d \in Dirs |-> IF HasManifest(d) THEN "pending" ELSE "none"]
  /\ pcStartup' = "spawning"
  /\ UNCHANGED <<skillVars, skillsDirExists, initTask, initResult, populate,
                 registryVars, SKILL_LOCKS, TOOL_MAPPING, STARTUP_EVENT,
                 alive, pipeVars, call>>

\* spawn_skill: the process is created and registered with a fresh lock.
spawn_skill(d) ==
  /\ pcStartup = "spawning"
  /\ spawnTask[d] = "pending"
  /\ spawnTask' = [spawnTask EXCEPT ![d] = "done"]
  /\ PROCESSES' = Append(PROCESSES, d)
  /\ MANIFESTS' = MANIFESTS \cup {d}
  /\ SKILL_LOCKS' = DictSet(SKILL_LOCKS, d, NewLock)
  /\ alive' = [alive EXCEPT ![d] = TRUE]
  /\ UNCHANGED <<skillVars, skillsDirExists, pcStartup, initTask, initResult, populate,
                 TOOL_MAPPING, STARTUP_EVENT, pipeVars, call>>

spawn_skill_failed_Propagates(d) ==
  /\ pcStartup = "spawning"
  /\ spawnTask[d] = "pending"
  /\ Faults < MaxFaults
  /\ spawnTask' = [spawnTask EXCEPT ![d] = "failed"]
  /\ pcStartup' = "returned"
  /\ UNCHANGED <<skillVars, skillsDirExists, initTask, initResult, populate,
                 registryVars, SKILL_LOCKS, TOOL_MAPPING, STARTUP_EVENT,
                 alive, pipeVars, call>>

\* spawn_skill raises (unreadable descriptor, missing executable): logged,
\* nothing registered.
spawn_skill_failed(d) ==
  /\ pcStartup = "spawning"
  /\ spawnTask[d] = "pending"
  /\ Faults < MaxFaults
  /\ spawnTask' = [spawnTask EXCEPT ![d] = "failed"]
  /\ UNCHANGED <<skillVars, skillsDirExists, pcStartup, initTask, initResult, populate,
                 registryVars, SKILL_LOCKS, TOOL_MAPPING, STARTUP_EVENT,
                 alive, pipeVars, call>>

\* 2. All spawn tasks have finished (gather): one initialize_skill_process
\* task per registered process, each entering "async with lock".
StartupInitialize ==
  /\ pcStartup = "spawning"
  /\ \A d \in Dirs : spawnTask[d] # "pending"
  /\ pcStartup' = "initializing"
  /\ initTask' = [w \in Skills |-> IF w \in Range(PROCESSES) THEN "lock" ELSE "none"]
  /\ SKILL_LOCKS' = [w \in DOMAIN SKILL_LOCKS |->
                       [SKILL_LOCKS[w] EXCEPT !.waiters = Append(@, InitTask(w))]]
  /\ UNCHANGED <<skillVars, skillsDirExists, spawnTask, initResult, populate,
                 registryVars, TOOL_MAPPING, STARTUP_EVENT, alive, pipeVars, call>>

(***************************************************************************)
(* initialize_skill_process                                                *)
(***************************************************************************)
\* What drain() can do after a write to skill w: it raises only when the
\* process is gone.
DrainOutcomes(w) == IF alive[w] THEN {"written"} ELSE {"written", "raised"}

\* The lock is taken and the initialize request written; the task then
\* waits for a line, unless drain() raised (return False).
initialize_skill_process_send(w) ==
  /\ initTask[w] = "lock"
  /\ Granted(w, InitTask(w))
  /\ stdin' = Write(stdin, w, InitRequest(InitTask(w)))
  /\ \E drain \in DrainOutcomes(w) :
       IF drain = "written"
         THEN /\ SKILL_LOCKS' = Take(SKILL_LOCKS, w, InitTask(w))
              /\ initTask' = [initTask EXCEPT ![w] = "read"]
              /\ UNCHANGED initResult
         ELSE /\ SKILL_LOCKS' = Release(Take(SKILL_LOCKS, w, InitTask(w)), w)
              /\ initTask' = [initTask EXCEPT ![w] = "done"]
              /\ initResult' = [initResult EXCEPT ![w] = "failed"]
  /\ UNCHANGED <<skillVars, skillsDirExists, pcStartup, spawnTask, populate, registryVars,
                 TOOL_MAPPING, STARTUP_EVENT, alive, consumed, stdout, readPos, call>>

\* readline() returned b"": "failed to respond to initialize", return False.
initialize_skill_process_eof(w) ==
  /\ initTask[w] = "read"
  /\ AtEof(w)
  /\ initTask' = [initTask EXCEPT ![w] = "done"]
  /\ initResult' = [initResult EXCEPT ![w] = "failed"]
  /\ SKILL_LOCKS' = Release(SKILL_LOCKS, w)
  /\ UNCHANGED <<skillVars, skillsDirExists, pcStartup, spawnTask, populate, registryVars,
                 TOOL_MAPPING, STARTUP_EVENT, alive, pipeVars, call>>

initialize_skill_process_recv_AlwaysNotify(w) ==
  /\ initTask[w] = "read"
  /\ LineReady(w)
  /\ readPos' = [readPos EXCEPT ![w] = @ + 1]
  /\ initTask' = [initTask EXCEPT ![w] = "done"]
  /\ SKILL_LOCKS' = Release(SKILL_LOCKS, w)
  /\ stdin' = Write(stdin, w, InitializedNotification(InitTask(w)))
  /\ initResult' = [initResult EXCEPT ![w] = "ok"]
  /\ UNCHANGED <<skillVars, skillsDirExists, pcStartup, spawnTask, populate, registryVars,
                 TOOL_MAPPING, STARTUP_EVENT, alive, consumed, stdout, call>>

\* readline() returned a line: json.loads raising and an "error" member
\* return False; otherwise the initialized notification is written and the
\* task returns True (False when that drain() raises).
initialize_skill_process_recv(w) ==
  /\ initTask[w] = "read"
  /\ LineReady(w)
  /\ readPos' = [readPos EXCEPT ![w] = @ + 1]
  /\ initTask' = [initTask EXCEPT ![w] = "done"]
  /\ SKILL_LOCKS' = Release(SKILL_LOCKS, w)
  /\ IF NextLine(w).kind = "result"
       THEN /\ stdin' = Write(stdin, w, InitializedNotification(InitTask(w)))
            /\ \E drain \in DrainOutcomes(w) :
                 initResult' = [initResult EXCEPT ![w] =
                                  IF drain = "written" THEN "ok" ELSE "failed"]
       ELSE /\ initResult' = [initResult EXCEPT ![w] = "failed"]
            /\ UNCHANGED stdin
  /\ UNCHANGED <<skillVars, skillsDirExists, pcStartup, spawnTask, populate, registryVars,
                 TOOL_MAPPING, STARTUP_EVENT, alive, consumed, stdout, call>>

(***************************************************************************)
(* populate_tool_mapping                                                   *)
(***************************************************************************)
\* Tool(**t) accepts the entry.
ToolValid(t) == t # BadEntry

MapTools_ByToolName(mapping, tools, name) ==
  [x \in (DOMAIN mapping) \cup {t \in Range(tools) : ToolValid(t)} |-> x]

\* "for t in skill_tools: TOOL_MAPPING[Tool(**t).name] = name": the entries
\* before the first one Tool(**t) rejects are mapped, then the loop raises.
RECURSIVE MapTools(_, _, _)
MapTools(mapping, tools, name) ==
  IF tools = <<>> \/ ~ToolValid(Head(tools))
    THEN mapping
    ELSE MapTools(DictSet(mapping, Head(tools), name), Tail(tools), name)

\* The loop of populate_tool_mapping goes on to its next item, or ends:
\* populate_tool_mapping returns and load_skills_and_initialize sets the event.
PopulateNext(locks, todo) ==
  IF todo = <<>>
    THEN /\ populate' = [pc |-> "done", todo |-> <<>>]
         /\ SKILL_LOCKS' = locks
         /\ pcStartup' = "returned"
         /\ STARTUP_EVENT' = TRUE
    ELSE /\ populate' = [pc |-> "lock", todo |-> todo]
         /\ SKILL_LOCKS' = Enqueue(locks, Head(todo), PopulateTask)
         /\ pcStartup' = "populating"
         /\ UNCHANGED STARTUP_EVENT

StartupPopulate_NoBarrier ==
  /\ pcStartup = "initializing"
  /\ \E w \in Range(PROCESSES) : initTask[w] = "done"
  /\ TOOL_MAPPING' = EmptyDict
  /\ PopulateNext(SKILL_LOCKS, PROCESSES)
  /\ UNCHANGED <<skillVars, skillsDirExists, spawnTask, initTask, initResult, registryVars,
                 alive, pipeVars, call>>

\* 3. All handshake tasks have finished (gather): TOOL_MAPPING.clear() and
\* the loop over list(PROCESSES.items()) starts.
StartupPopulate ==
  /\ pcStartup = "initializing"
  /\ \A w \in Range(PROCESSES) : initTask[w] = "done"
  /\ TOOL_MAPPING' = EmptyDict
  /\ PopulateNext(SKILL_LOCKS, PROCESSES)
  /\ UNCHANGED <<skillVars, skillsDirExists, spawnTask, initTask, initResult, registryVars,
                 alive, pipeVars, call>>

\* The lock is taken and the tools/list request written; when drain()
\* raises, the exception is logged and the loop goes on.
populate_tool_mapping_send ==
  /\ populate.pc = "lock"
  /\ LET w == Head(populate.todo)
     IN /\ Granted(w, PopulateTask)
        /\ stdin' = Write(stdin, w, ToolsListRequest(PopulateTask))
        /\ \E drain \in DrainOutcomes(w) :
             IF drain = "written"
               THEN /\ SKILL_LOCKS' = Take(SKILL_LOCKS, w, PopulateTask)
                    /\ populate' = [populate EXCEPT !.pc = "read"]
                    /\ UNCHANGED <<pcStartup, STARTUP_EVENT>>
               ELSE PopulateNext(Release(Take(SKILL_LOCKS, w, PopulateTask), w),
                                 Tail(populate.todo))
  /\ UNCHANGED <<skillVars, skillsDirExists, spawnTask, initTask, initResult, registryVars,
                 TOOL_MAPPING, alive, consumed, stdout, readPos, call>>

\* readline() returned b"": nothing is mapped for this skill.
populate_tool_mapping_eof ==
  /\ populate.pc = "read"
  /\ AtEof(Head(populate.todo))
  /\ PopulateNext(Release(SKILL_LOCKS, Head(populate.todo)), Tail(populate.todo))
  /\ UNCHANGED <<skillVars, skillsDirExists, spawnTask, initTask, initResult, registryVars,
                 TOOL_MAPPING, alive, pipeVars, call>>

populate_tool_mapping_recv_Raises ==
  /\ populate.pc = "read"
  /\ LET w == Head(populate.todo)
     IN /\ LineReady(w)
        /\ readPos' = [readPos EXCEPT ![w] = @ + 1]
        /\ TOOL_MAPPING' = IF NextLine(w).kind = "result"
                             THEN MapTools(TOOL_MAPPING, NextLine(w).tools, w)
                             ELSE TOOL_MAPPING
        /\ IF NextLine(w).kind = "garbage"
             THEN /\ populate' = [pc |-> "done", todo |-> <<>>]
                  /\ SKILL_LOCKS' = Release(SKILL_LOCKS, w)
                  /\ pcStartup' = "returned"
                  /\ UNCHANGED STARTUP_EVENT
             ELSE PopulateNext(Release(SKILL_LOCKS, w), Tail(populate.todo))
  /\ UNCHANGED <<skillVars, skillsDirExists, spawnTask, initTask, initResult, registryVars,
                 alive, stdin, consumed, stdout, call>>

\* readline() returned a line: the tools of a response with a "result" are
\* mapped to this skill; any other line maps nothing.
populate_tool_mapping_recv ==
  /\ populate.pc = "read"
  /\ LET w == Head(populate.todo)
     IN /\ LineReady(w)
        /\ readPos' = [readPos EXCEPT ![w] = @ + 1]
        /\ TOOL_MAPPING' = IF NextLine(w).kind = "result"
                             THEN MapTools(TOOL_MAPPING, NextLine(w).tools, w)
                             ELSE TOOL_MAPPING
        /\ PopulateNext(Release(SKILL_LOCKS, w), Tail(populate.todo))
  /\ UNCHANGED <<skillVars, skillsDirExists, spawnTask, initTask, initResult, registryVars,
                 alive, stdin, consumed, stdout, call>>

(***************************************************************************)
(* The front end: list_tools and call_tool requests                        *)
(***************************************************************************)
StartupEventWait_NoWait == TRUE

\* "await STARTUP_EVENT.wait()" returns.
StartupEventWait == STARTUP_EVENT

\* A request reaches the server (at any time, also during startup); its
\* handler coroutine starts and awaits the event.  Requests are numbered
\* in their order of arrival.
Arrive(c) ==
  /\ call[c].pc = "idle"
  /\ \A b \in Calls : b < c => call[b].pc # "idle"
  /\ \E op \in {"list", "call"} :
       call' = [call EXCEPT ![c] = [@ EXCEPT !.op = op, !.pc = "wait"]]
  /\ UNCHANGED <<skillVars, startupVars, registryVars, SKILL_LOCKS, TOOL_MAPPING, STARTUP_EVENT,
                 alive, pipeVars>>

Text(kind, detail) == [kind |-> kind, val |-> detail]

(***************************************************************************)
(* proxy_list_tools                                                        *)
(***************************************************************************)
AppendTools_Overwrite(tools, reported) == reported

\* "for t in ...: tools.append(Tool(**t))": the entries before the first
\* one Tool(**t) rejects are appended, then the loop raises.
RECURSIVE AppendTools(_, _)
AppendTools(tools, reported) ==
  IF reported = <<>> \/ ~ToolValid(Head(reported))
    THEN tools
    ELSE AppendTools(Append(tools, Head(reported)), Tail(reported))

ListNext_KeepsLock(c, locks, todo, tools) ==
  IF todo = <<>>
    THEN /\ call' = [call EXCEPT ![c] = [@ EXCEPT !.pc = "done", !.todo = <<>>,
                                            !.tools = tools,
                                            !.result = [kind |-> "tools", val |-> tools]]]
         /\ SKILL_LOCKS' = locks
    ELSE /\ call' = [call EXCEPT ![c] = [@ EXCEPT !.pc = "lock", !.todo = todo,
                                            !.tools = tools]]
         /\ SKILL_LOCKS' =
              Enqueue(IF call[c].todo = <<>> THEN locks
                      ELSE [locks EXCEPT ![Head(call[c].todo)].holder = CallTask(c)],
                      Head(todo), CallTask(c))

\* The loop of proxy_list_tools goes on to its next item, or ends with
\* "return tools".
ListNext(c, locks, todo, tools) ==
  IF todo = <<>>
    THEN /\ call' = [call EXCEPT ![c] = [@ EXCEPT !.pc = "done", !.todo = <<>>,
                                            !.tools = tools,
                                            !.result = [kind |-> "tools", val |-> tools]]]
         /\ SKILL_LOCKS' = locks
    ELSE /\ call' = [call EXCEPT ![c] = [@ EXCEPT !.pc = "lock", !.todo = todo,
                                            !.tools = tools]]
         /\ SKILL_LOCKS' = Enqueue(locks, Head(todo), CallTask(c))

AfterDeadSkill_Return(todo) == <<>>

\* "if proc.returncode is not None: ... continue": the items left.
AfterDeadSkill(todo) == Tail(todo)

AfterNoLine_Return(todo) == <<>>

\* "if not line: continue": the items left.
AfterNoLine(todo) == Tail(todo)

proxy_list_tools_start_WritesAll(c) ==
  /\ call[c].op = "list"
  /\ call[c].pc = "wait"
  /\ StartupEventWait
  /\ ListNext(c, SKILL_LOCKS, PROCESSES, <<>>)
  /\ stdin' = [w \in Skills |->
                 IF w \in Range(PROCESSES)
                   THEN Append(stdin[w], ToolsListRequest(CallTask(c)))
                   ELSE stdin[w]]
  /\ UNCHANGED <<skillVars, startupVars, registryVars, TOOL_MAPPING, STARTUP_EVENT, alive,
                 consumed, stdout, readPos>>

\* The event is set: tools = [] and the loop over list(PROCESSES.items()) starts.
proxy_list_tools_start(c) ==
  /\ call[c].op = "list"
  /\ call[c].pc = "wait"
  /\ StartupEventWait
  /\ ListNext(c, SKILL_LOCKS, PROCESSES, <<>>)
  /\ UNCHANGED <<skillVars, startupVars, registryVars, TOOL_MAPPING, STARTUP_EVENT, alive, pipeVars>>

\* What the loop body does with a skill before it waits for a line: with
\* the process gone, returncode may already be set ("dead": continue
\* without writing) or drain() may raise.
ListSendOutcomes(w) == IF alive[w] THEN {"written"} ELSE {"written", "raised", "dead"}

\* The lock is taken; unless the skill is seen dead, tools/list is written.
proxy_list_tools_send(c) ==
  /\ call[c].op = "list"
  /\ call[c].pc = "lock"
  /\ LET w == Head(call[c].todo)
     IN /\ Granted(w, CallTask(c))
        /\ \E out \in ListSendOutcomes(w) :
             /\ stdin' = IF out = "dead" THEN stdin
                         ELSE Write(stdin, w, ToolsListRequest(CallTask(c)))
             /\ IF out = "written"
                  THEN /\ SKILL_LOCKS' = Take(SKILL_LOCKS, w, CallTask(c))
                       /\ call' = [call EXCEPT ![c].pc = "read"]
                  ELSE ListNext(c, Release(Take(SKILL_LOCKS, w, CallTask(c)), w),
                                IF out = "dead" THEN AfterDeadSkill(call[c].todo)
                                                ELSE Tail(call[c].todo),
                                call[c].tools)
  /\ UNCHANGED <<skillVars, startupVars, registryVars, TOOL_MAPPING, STARTUP_EVENT,
                 alive, consumed, stdout, readPos>>

\* readline() returned b"": continue.
proxy_list_tools_eof(c) ==
  /\ call[c].op = "list"
  /\ call[c].pc = "read"
  /\ AtEof(Head(call[c].todo))
  /\ ListNext(c, Release(SKILL_LOCKS, Head(call[c].todo)), AfterNoLine(call[c].todo),
              call[c].tools)
  /\ UNCHANGED <<skillVars, startupVars, registryVars, TOOL_MAPPING, STARTUP_EVENT, alive, pipeVars>>

proxy_list_tools_recv_Remaps(c) ==
  /\ call[c].op = "list"
  /\ call[c].pc = "read"
  /\ LET w == Head(call[c].todo)
     IN /\ LineReady(w)
        /\ readPos' = [readPos EXCEPT ![w] = @ + 1]
        /\ TOOL_MAPPING' = IF NextLine(w).kind = "result"
                             THEN MapTools(TOOL_MAPPING, NextLine(w).tools, w)
                             ELSE TOOL_MAPPING
        /\ ListNext(c, Release(SKILL_LOCKS, w), Tail(call[c].todo),
                    IF NextLine(w).kind = "result"
                      THEN AppendTools(call[c].tools, NextLine(w).tools)
                      ELSE call[c].tools)
  /\ UNCHANGED <<skillVars, startupVars, registryVars, STARTUP_EVENT,
                 alive, stdin, consumed, stdout>>

\* readline() returned a line: a line json.loads rejects and an "error"
\* response add nothing; the tools of a result are appended.
proxy_list_tools_recv(c) ==
  /\ call[c].op = "list"
  /\ call[c].pc = "read"
  /\ LET w == Head(call[c].todo)
     IN /\ LineReady(w)
        /\ readPos' = [readPos EXCEPT ![w] = @ + 1]
        /\ ListNext(c, Release(SKILL_LOCKS, w), Tail(call[c].todo),
                    IF NextLine(w).kind = "result"
                      THEN AppendTools(call[c].tools, NextLine(w).tools)
                      ELSE call[c].tools)
  /\ UNCHANGED <<skillVars, startupVars, registryVars, TOOL_MAPPING, STARTUP_EVENT,
                 alive, stdin, consumed, stdout>>

(***************************************************************************)
(* call_tool                                                               *)
(***************************************************************************)
ResolveSkill_NoFallback(name) ==
  IF name \in DOMAIN TOOL_MAPPING THEN TOOL_MAPPING[name] ELSE "-"

\* "skill_name = TOOL_MAPPING.get(name); if not skill_name: skill_name = name"
ResolveSkill(name) ==
  IF name \in DOMAIN TOOL_MAPPING THEN TOOL_MAPPING[name] ELSE name

\* "proc = PROCESSES.get(skill_name); lock = SKILL_LOCKS.get(skill_name)":
\* both are found.
Registered(skill) ==
  skill \in Range(PROCESSES) /\ skill \in DOMAIN SKILL_LOCKS

\* The event is set: the target of call_tool(name, arguments) is resolved;
\* an unknown one is answered at once, otherwise the coroutine enters
\* "async with lock".  (The request's name and arguments are first read
\* here, so the model draws them here.)
call_tool_resolve(c) ==
  /\ call[c].op = "call"
  /\ call[c].pc = "wait"
  /\ StartupEventWait
  /\ \E name \in CallNames, arguments \in Payloads :
       LET skill == ResolveSkill(name)
           started == [call[c] EXCEPT !.name = name, !.arguments = arguments]
       IN IF Registered(skill)
            THEN /\ call' = [call EXCEPT ![c] =
                               [started EXCEPT !.pc = "lock", !.skill = skill]]
                 /\ SKILL_LOCKS' = Enqueue(SKILL_LOCKS, skill, CallTask(c))
            ELSE /\ call' = [call EXCEPT ![c] =
                               [started EXCEPT !.pc = "done",
                                               !.result = Text("unknown", <<name>>)]]
                 /\ UNCHANGED SKILL_LOCKS
  /\ UNCHANGED <<skillVars, startupVars, registryVars, TOOL_MAPPING, STARTUP_EVENT, alive, pipeVars>>

LockedForExchange_WriteOnly(locks, w, t) == Release(Take(locks, w, t), w)

\* "async with lock": the state of the locks while the coroutine waits,
\* inside the block, for the response line.
LockedForExchange(locks, w, t) == Take(locks, w, t)

\* The lock is taken and the tools/call request written; when drain()
\* raises the caller gets "Error communicating with skill".
call_tool_send(c) ==
  /\ call[c].op = "call"
  /\ call[c].pc = "lock"
  /\ LET w == call[c].skill
     IN /\ Granted(w, CallTask(c))
        /\ stdin' = Write(stdin, w,
                          ToolsCallRequest(call[c].name, call[c].arguments, CallTask(c)))
        /\ \E drain \in DrainOutcomes(w) :
             IF drain = "written"
               THEN /\ SKILL_LOCKS' = LockedForExchange(SKILL_LOCKS, w, CallTask(c))
                    /\ call' = [call EXCEPT ![c].pc = "read"]
               ELSE /\ SKILL_LOCKS' = Release(Take(SKILL_LOCKS, w, CallTask(c)), w)
                    /\ call' = [call EXCEPT ![c] =
                                  [@ EXCEPT !.pc = "done",
                                            !.result = Text("communicating", <<>>)]]
  /\ UNCHANGED <<skillVars, startupVars, registryVars, TOOL_MAPPING, STARTUP_EVENT,
                 alive, consumed, stdout, readPos>>

call_tool_eof_Unknown(c) ==
  /\ call[c].op = "call"
  /\ call[c].pc = "read"
  /\ AtEof(call[c].skill)
  /\ call' = [call EXCEPT ![c] = [@ EXCEPT !.pc = "done",
                                          !.result = Text("unknown", <<call[c].name>>)]]
  /\ SKILL_LOCKS' = Release(SKILL_LOCKS, call[c].skill)
  /\ UNCHANGED <<skillVars, startupVars, registryVars, TOOL_MAPPING, STARTUP_EVENT, alive,
                 pipeVars>>

\* readline() returned b"": "Error: Empty response from skill".
call_tool_eof(c) ==
  /\ call[c].op = "call"
  /\ call[c].pc = "read"
  /\ AtEof(call[c].skill)
  /\ call' = [call EXCEPT ![c] = [@ EXCEPT !.pc = "done", !.result = Text("empty", <<>>)]]
  /\ SKILL_LOCKS' = Release(SKILL_LOCKS, call[c].skill)
  /\ UNCHANGED <<skillVars, startupVars, registryVars, TOOL_MAPPING, STARTUP_EVENT, alive, pipeVars>>

CallResult_Unhandled(line) ==
  CASE line.kind = "garbage" -> [kind |-> "raised", val |-> <<>>]
    [] line.kind = "error" -> Text("skill error", <<>>)
    [] OTHER -> [kind |-> "content", val |-> line.content]

\* What call_tool returns for a line it has read: json.loads raising is
\* caught ("Error communicating with skill"), an "error" member gives
\* "Error from skill", else result.content.
CallResult(line) ==
  CASE line.kind = "garbage" -> Text("communicating", <<>>)
    [] line.kind = "error" -> Text("skill error", <<>>)
    [] OTHER -> [kind |-> "content", val |-> line.content]

\* readline() returned a line.
call_tool_recv(c) ==
  /\ call[c].op = "call"
  /\ call[c].pc = "read"
  /\ LET w == call[c].skill
     IN /\ LineReady(w)
        /\ readPos' = [readPos EXCEPT ![w] = @ + 1]
        /\ call' = [call EXCEPT ![c] =
                      [@ EXCEPT !.pc = "done", !.result = CallResult(NextLine(w))]]
        /\ SKILL_LOCKS' = Release(SKILL_LOCKS, w)
  /\ UNCHANGED <<skillVars, startupVars, registryVars, TOOL_MAPPING, STARTUP_EVENT,
                 alive, stdin, consumed, stdout>>

(***************************************************************************)
(* The system                                                              *)
(***************************************************************************)
Next ==
  \/ StartupNoSkillsDir
  \/ StartupSpawn
  \/ \E d \in Dirs : spawn_skill(d) \/ spawn_skill_failed(d)
  \/ StartupInitialize
  \/ \E w \in Skills : \/ initialize_skill_process_send(w)
                       \/ initialize_skill_process_eof(w)
                       \/ initialize_skill_process_recv(w)
  \/ StartupPopulate
  \/ populate_tool_mapping_send
  \/ populate_tool_mapping_eof
  \/ populate_tool_mapping_recv
  \/ \E w \in Skills : SkillHandle(w) \/ SkillExit(w)
  \/ \E c \in Calls : \/ Arrive(c)
                      \/ proxy_list_tools_start(c)
                      \/ proxy_list_tools_send(c)
                      \/ proxy_list_tools_eof(c)
                      \/ proxy_list_tools_recv(c)
                      \/ call_tool_resolve(c)
                      \/ call_tool_send(c)
                      \/ call_tool_eof(c)
                      \/ call_tool_recv(c)

Spec == Init /\ [][Next]_vars

(***************************************************************************)
(* The video_snapshot skill (skills/video_snapshot/server.py): do_snapshot *)
(* on a list of time strings.  Times are counted in thousandths of a       *)
(* second; the strings drawn are ones whose float arithmetic is exact.     *)
(***************************************************************************)
hubVars == <<startupVars, registryVars, SKILL_LOCKS, TOOL_MAPPING, STARTUP_EVENT,
             alive, pipeVars, call>>

\* Longest timestamps list of a do_snapshot call.
MaxTimestamps == 3

\* One ':'-separated field of a time string: a number float() accepts (in
\* thousandths) or a text it rejects.
Num(v) == [num |-> TRUE, val |-> v]
NotANumber == [num |-> FALSE, val |-> 0]

\* The time strings "1", "2.5", "00:00:03" (those of test_02_video_snapshot),
\* "00:00:01", "00:02" and "abc", as their fields.
TimeStrings ==
  { <<Num(1000)>>, <<Num(2500)>>, <<Num(0), Num(0), Num(3000)>>,
    <<Num(0), Num(0), Num(1000)>>, <<Num(0), Num(2000)>>, <<NotANumber>> }

TimestampLists == UNION {[1..n -> TimeStrings] : n \in 0..MaxTimestamps}

\* float(time_str) when it is one number; else HH:MM:SS or MM:SS; 0.0 for
\* any other shape and for a field float() rejects.
parse_time_to_seconds(time_str) ==
  LET parts == time_str
      valid == \A i \in 1..Len(parts) : parts[i].num
  IN CASE Len(parts) = 1 /\ valid -> parts[1].val
       [] Len(parts) = 3 /\ valid ->
            parts[1].val * 3600 + parts[2].val * 60 + parts[3].val
       [] Len(parts) = 2 /\ valid -> parts[1].val * 60 + parts[2].val
       [] OTHER -> 0

format_seconds_to_str_NoMillis(seconds) ==
  <<seconds \div 3600000, (seconds % 3600000) \div 60000,
    ((seconds % 3600000) % 60000) \div 1000, 0>>

\* f"{h:02d}-{m:02d}-{s:02d}-{ms:03d}", as the four numbers printed.
format_seconds_to_str(seconds) ==
  LET h == seconds \div 3600000
      remainder == seconds % 3600000
      m == remainder \div 60000
      s_float == remainder % 60000
      s == s_float \div 1000
      ms == s_float - s * 1000
  IN <<h, m, s, ms>>

\* do_snapshot(args): "ERROR: ..." when ffmpeg or the video file is
\* missing; else the loop over args.timestamps starts (the output
\* directory holds no snapshot yet).
do_snapshot_call ==
  /\ snapshot.pc = "idle"
  /\ \E timestamps \in TimestampLists, found \in {"ok", "no ffmpeg", "no video"} :
       snapshot' = IF found = "ok"
                     THEN [IdleSnapshot EXCEPT !.pc = "loop", !.timestamps = timestamps,
                                               !.todo = timestamps]
                     ELSE [IdleSnapshot EXCEPT !.pc = "done", !.timestamps = timestamps,
                                               !.summary = [error |-> found, created |-> 0,
                                                            of |-> 0]]
  /\ UNCHANGED <<hubVars, cleanup>>

\* One iteration: ffmpeg -ss ts ... -y output_path runs; a zero return code
\* with the file there counts as a success.
do_snapshot_extract ==
  /\ snapshot.pc = "loop"
  /\ snapshot.todo # <<>>
  /\ LET ts == Head(snapshot.todo)
         secs == parse_time_to_seconds(ts)
         filename == format_seconds_to_str(secs)
     IN \E extracted \in BOOLEAN :
          snapshot' =
            [snapshot EXCEPT
               !.todo = Tail(@),
               !.files = IF extracted THEN @ \cup {filename} ELSE @,
               !.success_count = IF extracted THEN @ + 1 ELSE @,
               !.output_log = Append(@, [ts |-> ts, filename |-> filename,
                                         ok |-> extracted])]
  /\ UNCHANGED <<hubVars, cleanup>>

\* "Summary: {success_count}/{len(args.timestamps)} snapshots created."
do_snapshot_return ==
  /\ snapshot.pc = "loop"
  /\ snapshot.todo = <<>>
  /\ snapshot' = [snapshot EXCEPT !.pc = "done",
                                  !.summary = [error |-> "-",
                                               created |-> snapshot.success_count,
                                               of |-> Len(snapshot.timestamps)]]
  /\ UNCHANGED <<hubVars, cleanup>>

(***************************************************************************)
(* The disk_manager skill (mcp-skills-hub/skills/disk_manager/server.py):  *)
(* do_execute_cleanup                                                      *)
(***************************************************************************)
\* The keys of CLEANUP_PROCEDURES.
CLEANUP_PROCEDURES ==
  {"npm_cache", "dev_caches", "homebrew", "system_caches", "pnpm_store",
   "vscode_caches", "google_caches"}

\* The procedure names a caller may give: the known ones and two others.
ProcedureNames == CLEANUP_PROCEDURES \cup {"", "everything"}

\* proc['command'] of a procedure, and the command of get_disk_percent().
Command(procedure) == <<"command of", procedure>>
DiskPercentCommand == <<"df -h /">>

CleanupOutcome_IgnoresConfirm(procedure, confirm) ==
  IF procedure \notin CLEANUP_PROCEDURES
    THEN [commands |-> <<>>, result |-> "unknown procedure"]
    ELSE [commands |-> <<Command(procedure), DiskPercentCommand>>,
          result |-> "executed"]

\* What do_execute_cleanup(procedure, confirm) runs through run_cmd and
\* which text it returns.
CleanupOutcome(procedure, confirm) ==
  IF procedure \notin CLEANUP_PROCEDURES
    THEN [commands |-> <<>>, result |-> "unknown procedure"]
    ELSE IF ~confirm
      THEN [commands |-> <<>>, result |-> "confirmation required"]
      ELSE [commands |-> <<Command(procedure), DiskPercentCommand>>,
            result |-> "executed"]

do_execute_cleanup ==
  /\ cleanup.pc = "idle"
  /\ \E procedure \in ProcedureNames, confirm \in BOOLEAN :
       cleanup' = [pc |-> "done", procedure |-> procedure, confirm |-> confirm,
                   commands |-> CleanupOutcome(procedure, confirm).commands,
                   result |-> CleanupOutcome(procedure, confirm).result]
  /\ UNCHANGED <<hubVars, snapshot>>

SkillsNext ==
  \/ do_snapshot_call
  \/ do_snapshot_extract
  \/ do_snapshot_return
  \/ do_execute_cleanup

SkillsSpec == Init /\ [][SkillsNext]_vars

(***************************************************************************)
(* What the tasks are doing, read off the state                            *)
(***************************************************************************)
Tasks == {PopulateTask} \cup {InitTask(w) : w \in Skills} \cup {CallTask(c) : c \in Calls}

\* The skill a front-end coroutine (its record r) is dealing with.
TargetOf(r) ==
  IF r.op = "list"
    THEN (IF r.todo = <<>> THEN "-" ELSE Head(r.todo))
    ELSE r.skill

CallTarget(c) == TargetOf(call[c])

\* Task t has written a request to skill w and waits in readline() for the
\* response, in the state with these values of initTask, populate, call.
ReadingIn(t, w, its, pop, cs) ==
  \/ t = InitTask(w) /\ its[w] = "read"
  \/ t = PopulateTask /\ pop.pc = "read" /\ Head(pop.todo) = w
  \/ \E c \in Calls : t = CallTask(c) /\ cs[c].pc = "read" /\ TargetOf(cs[c]) = w

\* An outstanding exchange of task t with skill w.
Reading(t, w) == ReadingIn(t, w, initTask, populate, call)

Outstanding(w) == {t \in Tasks : Reading(t, w)}

\* The requests on w's stdin after the last one whose response the hub has read.
Unanswered(w) ==
  LET last == IF readPos[w] = 0 THEN 0 ELSE stdout[w][readPos[w]].re
  IN {i \in 1..Len(stdin[w]) : i > last /\ stdin[w][i].hasId}

\* The places of the lines task t has written to w.
LinesOf(t, w) == {i \in 1..Len(stdin[w]) : stdin[w][i].by = t}

(***************************************************************************)
(* C1. Startup gate: a step of a list_tools or call_tool coroutine past    *)
(* "await STARTUP_EVENT.wait()" (the read of TOOL_MAPPING, a write to a    *)
(* skill, a return) and a line written by such a coroutine happen only     *)
(* with STARTUP_EVENT set; until then the coroutine stays where it is.     *)
(***************************************************************************)
C1_GateStep ==
  /\ \A c \in Calls :
       (call[c].pc # "idle" /\ call'[c] # call[c]) => STARTUP_EVENT
  /\ \A w \in Skills :
       (Len(stdin'[w]) > Len(stdin[w]) /\ stdin'[w][Len(stdin'[w])].by[1] = "call")
         => STARTUP_EVENT

C1_StartupGate == [][C1_GateStep]_vars

\* A call_tool and a list_tools request have arrived and are suspended
\* while populate_tool_mapping waits for a skill's tools/list response.
C1_Witness ==
  /\ ~STARTUP_EVENT
  /\ populate.pc = "read"
  /\ \E c1, c2 \in Calls : /\ call[c1].op = "call" /\ call[c1].pc = "wait"
                            /\ call[c2].op = "list" /\ call[c2].pc = "wait"

(***************************************************************************)
(* C2. Per-skill mutual exclusion: a skill has at most one outstanding     *)
(* exchange, whichever of the handshake, populate_tool_mapping,            *)
(* proxy_list_tools and call_tool started it, and the task of an           *)
(* outstanding exchange holds the skill's lock; on the pipe of a running   *)
(* skill at most one request is past the last response read.               *)
(***************************************************************************)
C2_OneExchangePerSkill ==
  \A w \in Skills :
    /\ Cardinality(Outstanding(w)) <= 1
    /\ \A t \in Outstanding(w) : w \in DOMAIN SKILL_LOCKS /\ SKILL_LOCKS[w].holder = t
    /\ alive[w] =>
         /\ Cardinality(Unanswered(w)) <= 1
         /\ \A i \in Unanswered(w) : SKILL_LOCKS[w].holder = stdin[w][i].by

\* One call waits for a skill's response while another call queues for the
\* same skill's lock.
C2_Witness ==
  \E c1, c2 \in Calls, w \in Skills :
    /\ c1 # c2
    /\ Reading(CallTask(c1), w)
    /\ alive[w]
    /\ call[c2].pc = "lock" /\ CallTarget(c2) = w
    /\ SKILL_LOCKS[w].waiters = <<CallTask(c2)>>

(***************************************************************************)
(* C3. No cross-talk: every response line is read by the task whose        *)
(* request it answers, while that task waits for it, and it answers the    *)
(* last line that task wrote to the skill; a call_tool that returns        *)
(* content returns the content the skill produced for its own name and     *)
(* arguments.                                                              *)
(***************************************************************************)
C3_ReadStep ==
  \A w \in Skills :
    readPos'[w] # readPos[w] =>
      LET line == stdout[w][readPos[w] + 1]
          t == stdin[w][line.re].by
      IN /\ readPos'[w] = readPos[w] + 1
         /\ Reading(t, w)
         /\ ~ReadingIn(t, w, initTask', populate', call')
         /\ \A i \in LinesOf(t, w) : i <= line.re
         /\ \A c \in Calls :
              (t = CallTask(c) /\ call[c].op = "call" /\ line.kind = "result")
                => call'[c].result =
                     [kind |-> "content",
                      val |-> <<w, call[c].name, call[c].arguments>>]

C3_NoCrossTalk == [][C3_ReadStep]_vars

\* Two call_tool calls with different arguments on the same skill are both
\* done, each with the content for its own arguments.
C3_Witness ==
  \E c1, c2 \in Calls :
    /\ c1 # c2
    /\ call[c1].pc = "done" /\ call[c2].pc = "done"
    /\ call[c1].result.kind = "content" /\ call[c2].result.kind = "content"
    /\ call[c1].skill = call[c2].skill
    /\ call[c1].arguments # call[c2].arguments
    /\ call[c1].result.val[3] = call[c1].arguments
    /\ call[c2].result.val[3] = call[c2].arguments

(***************************************************************************)
(* Requests and their responses, read off the pipes                        *)
(***************************************************************************)
\* The places on w's stdout of the responses to the request at place i.
ResponsesTo(w, i) == {j \in 1..Len(stdout[w]) : stdout[w][j].re = i}

\* The response lines skill w has produced for the requests of task t.
AnswersTo(w, t) ==
  {stdout[w][j] : j \in UNION {ResponsesTo(w, i) : i \in LinesOf(t, w)}}

CallDone(c, op) == call[c].op = op /\ call[c].pc = "done"

HoldsNoLock(t) ==
  \A w \in DOMAIN SKILL_LOCKS :
    SKILL_LOCKS[w].holder # t /\ t \notin Range(SKILL_LOCKS[w].waiters)

(***************************************************************************)
(* C4. Routing of call_tool(name, arguments): the "Unknown tool" result    *)
(* is returned exactly when name is neither a key of TOOL_MAPPING nor a    *)
(* key of PROCESSES, and then nothing has been written to any skill;       *)
(* otherwise the target is TOOL_MAPPING[name] when name is a key of        *)
(* TOOL_MAPPING and the skill called name when it is not.                  *)
(***************************************************************************)
C4_Routing ==
  \A c \in Calls :
    (call[c].op = "call" /\ call[c].pc \in {"lock", "read", "done"}) =>
      LET name == call[c].name
          inIndex == name \in DOMAIN TOOL_MAPPING
          isSkill == name \in Range(PROCESSES)
          unknown == call[c].pc = "done" /\ call[c].result.kind = "unknown"
      IN /\ unknown <=> (~inIndex /\ ~isSkill)
         /\ unknown =>
              /\ call[c].result = [kind |-> "unknown", val |-> <<name>>]
              /\ \A w \in Skills : LinesOf(CallTask(c), w) = {}
         /\ ~unknown =>
              /\ call[c].skill = (IF inIndex THEN TOOL_MAPPING[name] ELSE name)
              /\ call[c].skill \in Range(PROCESSES)
              /\ \A w \in Skills \ {call[c].skill} : LinesOf(CallTask(c), w) = {}

\* One call named like a skill and absent from TOOL_MAPPING has been served
\* by that skill; another call has got "Unknown tool".
C4_Witness ==
  \E c1, c2 \in Calls :
    /\ CallDone(c1, "call") /\ CallDone(c2, "call")
    /\ call[c1].name \notin DOMAIN TOOL_MAPPING
    /\ call[c1].name \in Range(PROCESSES)
    /\ call[c1].result.kind = "content"
    /\ call[c1].result.val[1] = call[c1].name
    /\ call[c2].result.kind = "unknown"

(***************************************************************************)
(* C5. For a name that is a key of TOOL_MAPPING, call_tool writes exactly  *)
(* one line, to TOOL_MAPPING[name] and to no other skill: the tools/call   *)
(* request with that name and the arguments it was given; and when the     *)
(* skill answers it with a result, call_tool returns that result's         *)
(* content.                                                                *)
(***************************************************************************)
C5_Forwarding ==
  \A c \in Calls :
    (call[c].op = "call" /\ call[c].pc \in {"lock", "read", "done"}
       /\ call[c].name \in DOMAIN TOOL_MAPPING) =>
      LET owner == TOOL_MAPPING[call[c].name]
          t == CallTask(c)
      IN /\ \A w \in Skills \ {owner} : LinesOf(t, w) = {}
         /\ call[c].pc = "lock" => LinesOf(t, owner) = {}
         /\ call[c].pc \in {"read", "done"} =>
              /\ Cardinality(LinesOf(t, owner)) = 1
              /\ \A i \in LinesOf(t, owner) :
                   stdin[owner][i] = [method |-> "tools/call", hasId |-> TRUE,
                                      name |-> call[c].name,
                                      arguments |-> call[c].arguments, by |-> t]
         /\ call[c].pc = "done" =>
              \A r \in AnswersTo(owner, t) :
                r.kind = "result" =>
                  call[c].result = [kind |-> "content", val |-> r.content]

\* The tool "B" of skill A, named like the registered skill B, has been
\* called and answered by A.
C5_Witness ==
  \E c \in Calls :
    /\ CallDone(c, "call")
    /\ call[c].name = "B"
    /\ "B" \in Range(PROCESSES)
    /\ "B" \in DOMAIN TOOL_MAPPING /\ TOOL_MAPPING["B"] = "A"
    /\ call[c].result = [kind |-> "content", val |-> <<"A", "B", call[c].arguments>>]

(***************************************************************************)
(* C6. call_tool does not raise because of its target: it returns a text   *)
(* when the skill's stdout is at end of stream or the connection is lost   *)
(* (no response line exists), when the line is not JSON and when the       *)
(* response has an "error" member; on return it holds and awaits no lock.  *)
(***************************************************************************)
C6_FailuresAreResults ==
  \A c \in Calls :
    CallDone(c, "call") =>
      LET t == CallTask(c)
          w == call[c].skill
          kind == call[c].result.kind
      IN /\ kind \in {"unknown", "content", "empty", "skill error", "communicating"}
         /\ HoldsNoLock(t)
         /\ kind # "unknown" =>
              /\ AnswersTo(w, t) = {} => kind \in {"empty", "communicating"}
              /\ \A r \in AnswersTo(w, t) :
                   /\ r.kind = "garbage" => kind = "communicating"
                   /\ r.kind = "error" => kind = "skill error"

\* A call to a skill that has exited got the "Empty response" text, and a
\* call to the other skill got its content.
C6_Witness ==
  \E c1, c2 \in Calls :
    /\ CallDone(c1, "call") /\ CallDone(c2, "call")
    /\ call[c1].result.kind = "empty"
    /\ ~alive[call[c1].skill]
    /\ call[c2].result.kind = "content"
    /\ call[c2].skill # call[c1].skill

(***************************************************************************)
(* What the skills report                                                  *)
(***************************************************************************)
\* The tools skill w reported in its response to task t's tools/list
\* request (none when there is no such response or it is no result).
Reported(w, t) ==
  IF AnswersTo(w, t) = {} THEN <<>> ELSE (CHOOSE r \in AnswersTo(w, t) : TRUE).tools

\* The reports to task t of the skills ws, in that order, one after another.
RECURSIVE ConcatReported(_, _)
ConcatReported(ws, t) ==
  IF ws = <<>> THEN <<>> ELSE Reported(Head(ws), t) \o ConcatReported(Tail(ws), t)

\* Skill w runs and every line it has written is a well-formed result.
Responsive(w) ==
  alive[w] /\ \A i \in 1..Len(stdout[w]) : WellFormed(stdout[w][i])

\* sub is a block of consecutive elements of s.
Contains(s, sub) ==
  \E k \in 0..(Len(s) - Len(sub)) : SubSeq(s, k + 1, k + Len(sub)) = sub

\* Skill w's handshake failed with an error reply or at end of stream.
HandshakeFailed(w) ==
  /\ initResult[w] = "failed"
  /\ \A r \in AnswersTo(w, InitTask(w)) : r.kind = "error"

(***************************************************************************)
(* C7. With every spawned skill running and answering every request with   *)
(* a well-formed result, a finished list_tools holds exactly the tools     *)
(* the skills reported to it: the reports of the skills in the order of    *)
(* PROCESSES, each in the order the skill gave.                            *)
(***************************************************************************)
C7_ListIsUnionInOrder ==
  \A c \in Calls :
    (CallDone(c, "list") /\ \A w \in Range(PROCESSES) : Responsive(w)) =>
      /\ \A w \in Range(PROCESSES) : AnswersTo(w, CallTask(c)) # {}
      /\ call[c].result = [kind |-> "tools",
                           val |-> ConcatReported(PROCESSES, CallTask(c))]

\* Both skills are registered, B before A, and a list_tools has returned
\* B's tools followed by A's.
C7_Witness ==
  \E c \in Calls :
    /\ CallDone(c, "list")
    /\ PROCESSES = <<"B", "A">>
    /\ Responsive("A") /\ Responsive("B")
    /\ call[c].result.val = <<"d", "y", "x", "d", "B">>

(***************************************************************************)
(* C8. When exactly one skill failed its handshake (error reply or end of  *)
(* stream) and the others succeeded and are responsive, a finished         *)
(* list_tools holds, for every other skill, the tools that skill reported  *)
(* to it.                                                                  *)
(***************************************************************************)
C8_HandshakeFailureContained ==
  \A c \in Calls, f \in Range(PROCESSES) :
    (/\ CallDone(c, "list")
     /\ HandshakeFailed(f)
     /\ \A w \in Range(PROCESSES) \ {f} : initResult[w] = "ok" /\ Responsive(w)) =>
      /\ call[c].result.kind = "tools"
      /\ \A w \in Range(PROCESSES) \ {f} :
           /\ Reported(w, CallTask(c)) # <<>>
           /\ Contains(call[c].result.val, Reported(w, CallTask(c)))

\* Skill A, first in PROCESSES, exited before answering initialize; B
\* succeeded; a list_tools has returned B's tools.
C8_Witness ==
  \E c \in Calls :
    /\ CallDone(c, "list")
    /\ PROCESSES = <<"A", "B">>
    /\ HandshakeFailed("A") /\ ~alive["A"]
    /\ initResult["B"] = "ok" /\ Responsive("B")
    /\ call[c].result.val = <<"d", "y">>

C10_NoWaitingAcrossSkills ==
  \A c \in Calls :
    call[c].op = "call" =>
      LET w == call[c].skill
      IN /\ (call[c].pc = "lock" /\ SKILL_LOCKS[w].holder = NoTask
               /\ Head(SKILL_LOCKS[w].waiters) = CallTask(c))
              => ENABLED call_tool_send(c)
         /\ (call[c].pc = "read" /\ LineReady(w)) => ENABLED call_tool_recv(c)

\* A call on A still waits for A to handle its request while a call on B
\* has written its request, read the response and returned.
C10_Witness ==
  \E c1, c2 \in Calls :
    /\ call[c1].op = "call" /\ call[c1].pc = "read" /\ call[c1].skill = "A"
    /\ alive["A"] /\ consumed["A"] < Len(stdin["A"])
    /\ CallDone(c2, "call") /\ call[c2].skill = "B"
    /\ call[c2].result.kind = "content"

(***************************************************************************)
(* C11. A skill whose handshake failed (error reply, or no reply) is       *)
(* removed from the registry: once the handshakes are over, PROCESSES and  *)
(* SKILL_LOCKS hold no entry for it.                                       *)
(***************************************************************************)
C11_FailedWorkerRemoved ==
  \A w \in Skills :
    (pcStartup \in {"populating", "returned"} /\ HandshakeFailed(w)) =>
      /\ w \notin Range(PROCESSES)
      /\ w \notin DOMAIN SKILL_LOCKS

(***************************************************************************)
(* C12. A skill whose handshake failed is left out of index building:      *)
(* populate_tool_mapping writes it no tools/list request, TOOL_MAPPING     *)
(* maps no tool to it, and call_tool writes it no tools/call request.      *)
(***************************************************************************)
C12_FailedWorkerNotIndexed ==
  \A w \in Skills :
    HandshakeFailed(w) =>
      /\ LinesOf(PopulateTask, w) = {}
      /\ \A n \in DOMAIN TOOL_MAPPING : TOOL_MAPPING[n] # w
      /\ \A i \in 1..Len(stdin[w]) : stdin[w][i].method # "tools/call"

(***************************************************************************)
(* C13. Every skill name that is a value of TOOL_MAPPING is a key of       *)
(* PROCESSES, of MANIFESTS and of SKILL_LOCKS.                             *)
(***************************************************************************)
C13_IndexPointsIntoRegistry ==
  \A n \in DOMAIN TOOL_MAPPING :
    /\ TOOL_MAPPING[n] \in Range(PROCESSES)
    /\ TOOL_MAPPING[n] \in MANIFESTS
    /\ TOOL_MAPPING[n] \in DOMAIN SKILL_LOCKS

\* Startup is complete, tools are mapped to both skills, and a skill that
\* tools are mapped to has exited since.
C13_Witness ==
  /\ STARTUP_EVENT
  /\ \E n1, n2 \in DOMAIN TOOL_MAPPING :
       /\ TOOL_MAPPING[n1] = "A" /\ TOOL_MAPPING[n2] = "B"
       /\ ~alive[TOOL_MAPPING[n1]]

(***************************************************************************)
(* C14 as stated. A missing SKILLS_DIR is fatal: the event is never set    *)
(* and no list_tools or call_tool request gets past its wait.              *)
(***************************************************************************)
C14_MissingDirIsFatal ==
  ~skillsDirExists =>
    /\ ~STARTUP_EVENT
    /\ \A c \in Calls : call[c].pc \in {"idle", "wait"}

(***************************************************************************)
(* C14 as amended. With SKILLS_DIR missing nothing is spawned, the event   *)
(* is set by the first and only step of startup, and requests are served   *)
(* from the empty registry: a waiting request can go on as soon as the     *)
(* event is set, list_tools returns the empty list, call_tool returns      *)
(* "Unknown tool", and nothing is written to any skill.                    *)
(***************************************************************************)
C14_MissingDirServesEmpty ==
  ~skillsDirExists =>
    /\ PROCESSES = <<>> /\ MANIFESTS = {}
    /\ DOMAIN SKILL_LOCKS = {} /\ DOMAIN TOOL_MAPPING = {}
    /\ \A w \in Skills : ~alive[w] /\ stdin[w] = <<>>
    /\ pcStartup \in {"begin", "returned"}
    /\ STARTUP_EVENT <=> pcStartup = "returned"
    /\ \A c \in Calls :
         /\ call[c].pc \in {"idle", "wait", "done"}
         /\ (call[c].pc = "wait" /\ pcStartup = "returned") =>
              IF call[c].op = "list" THEN ENABLED proxy_list_tools_start(c)
                                     ELSE ENABLED call_tool_resolve(c)
         /\ call[c].pc = "done" =>
              call[c].result = IF call[c].op = "list"
                                 THEN [kind |-> "tools", val |-> <<>>]
                                 ELSE [kind |-> "unknown", val |-> <<call[c].name>>]

\* SKILLS_DIR is missing; a list_tools and a call_tool request have both
\* been answered.
C14_Witness ==
  /\ ~skillsDirExists
  /\ \E c1, c2 \in Calls : CallDone(c1, "list") /\ CallDone(c2, "call")

(***************************************************************************)
(* C15 as stated. A call_tool whose target is a registered skill that has  *)
(* exited is answered with the unknown-tool result, and the skill is not   *)
(* restarted.                                                              *)
(***************************************************************************)
C15_ExitedIsUnknownStep ==
  \A c \in Calls :
    (/\ call[c].op = "call" /\ call[c].pc = "wait" /\ call'[c].pc # "wait"
     /\ ResolveSkill(call'[c].name) \in Range(PROCESSES)
     /\ ~alive[ResolveSkill(call'[c].name)]) =>
      /\ call'[c].pc = "done"
      /\ call'[c].result.kind = "unknown"
      /\ alive' = alive

C15_ExitedIsUnknownTarget == [][C15_ExitedIsUnknownStep]_vars

(***************************************************************************)
(* C15 as amended. A skill that has exited is never restarted and stays    *)
(* registered, and a call_tool to it that the skill has not answered       *)
(* returns "Error: Empty response from skill" or "Error communicating      *)
(* with skill", not the unknown-tool result.                               *)
(***************************************************************************)
C15_ExitedStep ==
  /\ \A w \in Range(PROCESSES) :
       ~alive[w] => (~alive'[w] /\ w \in Range(PROCESSES'))
  /\ \A c \in Calls :
       (/\ call[c].op = "call" /\ call[c].pc \in {"lock", "read"}
        /\ call'[c].pc = "done"
        /\ ~alive[call[c].skill]
        /\ AnswersTo(call[c].skill, CallTask(c)) = {}) =>
         call'[c].result.kind \in {"empty", "communicating"}

C15_ExitedIsErrorResult == [][C15_ExitedStep]_vars

\* Skill A exited after startup with nothing written to it since; a
\* call_tool routed to A has returned the "Empty response" text, and A is
\* still registered and still dead.
C15_Witness ==
  \E c \in Calls :
    /\ CallDone(c, "call")
    /\ call[c].skill = "A" /\ ~alive["A"] /\ "A" \in Range(PROCESSES)
    /\ initResult["A"] = "ok"
    /\ consumed["A"] = Len(stdin["A"]) - 1
    /\ stdin["A"][Len(stdin["A"])].by = CallTask(c)
    /\ call[c].result.kind = "empty"

(***************************************************************************)
(* C16 as stated (for timestamps that are pairwise different strings). A   *)
(* do_snapshot over N timestamps, each extracted successfully, reports     *)
(* N/N and leaves exactly N files.                                         *)
(***************************************************************************)
AllExtracted ==
  /\ snapshot.pc = "done"
  /\ snapshot.summary.error = "-"
  /\ Len(snapshot.output_log) = Len(snapshot.timestamps)
  /\ \A i \in 1..Len(snapshot.output_log) : snapshot.output_log[i].ok

C16_OneFilePerTimestamp ==
  (/\ AllExtracted
   /\ \A i, j \in 1..Len(snapshot.timestamps) :
        i # j => snapshot.timestamps[i] # snapshot.timestamps[j]) =>
    /\ snapshot.summary.created = Len(snapshot.timestamps)
    /\ snapshot.summary.of = Len(snapshot.timestamps)
    /\ Cardinality(snapshot.files) = Len(snapshot.timestamps)

(***************************************************************************)
(* C16 as amended. A do_snapshot over N timestamps, each extracted         *)
(* successfully, reports N/N and leaves one file per distinct file name    *)
(* format_seconds_to_str(parse_time_to_seconds(ts)): N files exactly when  *)
(* no two timestamps are given the same name.  (With exact arithmetic, as  *)
(* for the strings drawn here, that is one file per distinct time to the   *)
(* millisecond.)                                                           *)
(***************************************************************************)
C16_OneFilePerDistinctName ==
  AllExtracted =>
    LET N == Len(snapshot.timestamps)
        name(ts) == format_seconds_to_str(parse_time_to_seconds(ts))
        times == {parse_time_to_seconds(ts) : ts \in Range(snapshot.timestamps)}
    IN /\ snapshot.summary.created = N /\ snapshot.summary.of = N
       /\ snapshot.files = {name(ts) : ts \in Range(snapshot.timestamps)}
       /\ Cardinality(snapshot.files) = Cardinality(times)
       /\ Cardinality(snapshot.files) = N <=>
            \A i, j \in 1..N :
              i # j => name(snapshot.timestamps[i]) # name(snapshot.timestamps[j])

\* ["1", "00:00:01", "2.5", "00:02"] cut to the longest list: three
\* timestamps of which two are the same second in different notations, all
\* extracted; the summary is 3/3 and two files are left.
C16_Witness ==
  /\ AllExtracted
  /\ snapshot.timestamps = <<(<<Num(1000)>>), (<<Num(0), Num(0), Num(1000)>>),
                             (<<Num(2500)>>)>>
  /\ snapshot.summary.created = 3 /\ snapshot.summary.of = 3
  /\ snapshot.files = {<<0, 0, 1, 0>>, <<0, 0, 2, 500>>}

(***************************************************************************)
(* C17. do_execute_cleanup(procedure, confirm) runs a command only for a   *)
(* known procedure with confirm true, and then the procedure's own         *)
(* command first; for an unknown procedure it runs nothing and returns     *)
(* the unknown-procedure text; for a known one without confirm it runs     *)
(* nothing and returns the confirmation-required text.                     *)
(***************************************************************************)
C17_ConfirmRequired ==
  cleanup.pc = "done" =>
    LET known == cleanup.procedure \in CLEANUP_PROCEDURES
    IN /\ cleanup.commands # <<>> <=> (known /\ cleanup.confirm)
       /\ (known /\ cleanup.confirm) =>
            /\ cleanup.commands[1] = Command(cleanup.procedure)
            /\ cleanup.result = "executed"
       /\ ~known => cleanup.result = "unknown procedure"
       /\ (known /\ ~cleanup.confirm) => cleanup.result = "confirmation required"

\* system_caches was asked for without confirm: nothing ran.
C17_Witness ==
  /\ cleanup.pc = "done"
  /\ cleanup.procedure = "system_caches" /\ ~cleanup.confirm
  /\ cleanup.commands = <<>>
  /\ cleanup.result = "confirmation required"

(***************************************************************************)
(* The lines a step writes                                                 *)
(***************************************************************************)
\* The step writes a line to skill w.
Writes(w) == Len(stdin'[w]) > Len(stdin[w])

\* The line it writes.
Written(w) == stdin'[w][Len(stdin'[w])]

(***************************************************************************)
(* C18. The phases of load_skills_and_initialize run in order, with a      *)
(* barrier between them: a skill is registered only while no line has      *)
(* been written to any skill; a handshake line is written only when every  *)
(* spawn_skill task has finished and no tools/list of                      *)
(* populate_tool_mapping has been written; a tools/list of                 *)
(* populate_tool_mapping is written only when every handshake task has     *)
(* finished; STARTUP_EVENT is set only when populate_tool_mapping has      *)
(* returned (with SKILLS_DIR missing no phase runs at all and the event    *)
(* is set by the only step); and once set the event stays set.             *)
(***************************************************************************)
C18_PhaseStep ==
  /\ PROCESSES' # PROCESSES =>
       /\ pcStartup = "spawning"
       /\ \A w \in Skills : stdin[w] = <<>>
  /\ \A w \in Skills :
       (Writes(w) /\ Written(w).by = InitTask(w)) =>
         /\ \A d \in Dirs : HasManifest(d) => spawnTask[d] \in {"done", "failed"}
         /\ \A v \in Skills : LinesOf(PopulateTask, v) = {}
         /\ populate.pc = "none" /\ ~STARTUP_EVENT
  /\ \A w \in Skills :
       (Writes(w) /\ Written(w).by = PopulateTask) =>
         /\ \A v \in Range(PROCESSES) : initTask[v] = "done"
         /\ \A v \in Skills : initTask[v] \in {"none", "done"}
         /\ ~STARTUP_EVENT
  /\ (~STARTUP_EVENT /\ STARTUP_EVENT') =>
       /\ pcStartup' = "returned"
       /\ populate'.pc = IF skillsDirExists THEN "done" ELSE "none"
       /\ populate'.todo = <<>>
       /\ \A v \in Skills : initTask[v] \in {"none", "done"}
  /\ STARTUP_EVENT => STARTUP_EVENT'

C18_PhasesInOrder == [][C18_PhaseStep]_vars

\* A's handshake has finished and waits at the barrier while B's is still
\* waiting for the response to its initialize request.
C18_Witness ==
  /\ pcStartup = "initializing"
  /\ initTask["A"] = "done" /\ initTask["B"] = "read"
  /\ populate.pc = "none" /\ ~STARTUP_EVENT

(***************************************************************************)
(* C19. Handshake order for one skill: the first line written to a skill   *)
(* is its initialize request and no other initialize follows; the          *)
(* initialized notification is the second line, written only after the     *)
(* first response line has been read and is a response without an error,   *)
(* never after an error, an undecodable line or end of stream; both lines  *)
(* are written by the handshake task while it has the skill's lock, and    *)
(* no other task writes to the skill until the handshake has finished.     *)
(***************************************************************************)
C19_HandshakeState ==
  \A w \in Skills :
    LET notes == {i \in 1..Len(stdin[w]) :
                    stdin[w][i].method = "notifications/initialized"}
        inits == {i \in 1..Len(stdin[w]) : stdin[w][i].method = "initialize"}
    IN /\ stdin[w] # <<>> => stdin[w][1] = InitRequest(InitTask(w))
       /\ inits \subseteq {1}
       /\ notes \subseteq {2}
       /\ notes # {} =>
            /\ stdin[w][2] = InitializedNotification(InitTask(w))
            /\ initTask[w] = "done"
            /\ readPos[w] >= 1
            /\ stdout[w][1].re = 1 /\ stdout[w][1].kind = "result"
       /\ initResult[w] = "ok" => notes = {2}
       /\ initTask[w] = "read" =>
            /\ SKILL_LOCKS[w].holder = InitTask(w)
            /\ Len(stdin[w]) = 1

C19_HandshakeStep ==
  \A w \in Skills :
    Writes(w) =>
      /\ initTask[w] \in {"lock", "read"} => Written(w).by = InitTask(w)
      /\ Written(w).method = "initialize" =>
           /\ initTask[w] = "lock" /\ Granted(w, InitTask(w))
           /\ stdin[w] = <<>>
      /\ Written(w).method = "notifications/initialized" =>
           /\ initTask[w] = "read" /\ SKILL_LOCKS[w].holder = InitTask(w)
           /\ LineReady(w) /\ NextLine(w).kind = "result" /\ NextLine(w).re = 1
           /\ Len(stdin[w]) = 1

C19_HandshakeOrder == []C19_HandshakeState /\ [][C19_HandshakeStep]_vars

\* A's handshake succeeded with exactly the two lines; B answered its
\* initialize request with an error and got nothing more.
C19_Witness ==
  /\ initResult["A"] = "ok"
  /\ stdin["A"] = <<InitRequest(InitTask("A")), InitializedNotification(InitTask("A"))>>
  /\ initResult["B"] = "failed"
  /\ readPos["B"] = 1 /\ stdout["B"][1].kind = "error"
  /\ stdin["B"] = <<InitRequest(InitTask("B"))>>

(***************************************************************************)
(* Scheduling.  The event loop runs every task of the hub that can take a  *)
(* step, so the hub's own steps are weakly fair.  A skill is another       *)
(* process: nothing obliges it to answer.  FairSpec takes skill B to       *)
(* handle every line it is sent for as long as it runs, and leaves skill   *)
(* A free to stay silent for ever.                                         *)
(***************************************************************************)
HubStep ==
  \/ StartupNoSkillsDir
  \/ StartupSpawn
  \/ \E d \in Dirs : spawn_skill(d) \/ spawn_skill_failed(d)
  \/ StartupInitialize
  \/ \E w \in Skills : \/ initialize_skill_process_send(w)
                       \/ initialize_skill_process_eof(w)
                       \/ initialize_skill_process_recv(w)
  \/ StartupPopulate
  \/ populate_tool_mapping_send
  \/ populate_tool_mapping_eof
  \/ populate_tool_mapping_recv
  \/ \E c \in Calls : \/ proxy_list_tools_start(c)
                      \/ proxy_list_tools_send(c)
                      \/ proxy_list_tools_eof(c)
                      \/ proxy_list_tools_recv(c)
                      \/ call_tool_resolve(c)
                      \/ call_tool_send(c)
                      \/ call_tool_eof(c)
                      \/ call_tool_recv(c)

FairSpec == Spec /\ WF_vars(HubStep) /\ WF_vars(SkillHandle("B"))

(***************************************************************************)
(* C20. A spawned skill from which no response to initialize ever arrives  *)
(* is failed: its handshake task, once it waits for the response, comes    *)
(* to an end whether or not a line arrives; and startup goes on to set     *)
(* STARTUP_EVENT, so that the requests that wait for it get past the wait. *)
(***************************************************************************)
C20_SilentWorkerIsFailed ==
  /\ \A w \in Skills : (initTask[w] = "read") ~> (initTask[w] = "done")
  /\ (pcStartup = "initializing") ~> STARTUP_EVENT
  /\ \A c \in Calls : (call[c].pc = "wait") ~> (call[c].pc # "wait")

(***************************************************************************)
(* C21. list_tools queries the skills concurrently: while a list_tools     *)
(* call waits for one skill's response and the next skill of its loop is   *)
(* running with its lock free, the tools/list request to that next skill   *)
(* can be written, without the response of the first having been read.     *)
(***************************************************************************)
C21_ListQueriesConcurrently ==
  \A c \in Calls :
    (/\ call[c].op = "list"
     /\ call[c].pc = "read"
     /\ Len(call[c].todo) >= 2
     /\ alive[call[c].todo[2]]
     /\ SKILL_LOCKS[call[c].todo[2]] = NewLock)
      => ENABLED (/\ Next
                  /\ readPos' = readPos
                  /\ Writes(call[c].todo[2])
                  /\ Written(call[c].todo[2]) = ToolsListRequest(CallTask(c)))

(***************************************************************************)
(* C21, as the code has it.  list_tools queries the skills one after       *)
(* another, in the order of PROCESSES: the call's loop is at one skill at  *)
(* a time, nothing has been written by the call to the skills its loop     *)
(* has not reached, and a step that writes the call's request to a skill   *)
(* is taken while the call waits for no response.                          *)
(***************************************************************************)
C21_ListState ==
  \A c \in Calls :
    (call[c].op = "list" /\ call[c].pc \in {"lock", "read"}) =>
      /\ call[c].todo # <<>>
      /\ \E k \in 1..Len(PROCESSES) :
           call[c].todo = SubSeq(PROCESSES, k, Len(PROCESSES))
      /\ \A w \in Range(Tail(call[c].todo)) : LinesOf(CallTask(c), w) = {}
      /\ call[c].pc = "lock" => LinesOf(CallTask(c), Head(call[c].todo)) = {}
      /\ Cardinality({w \in Skills : Unanswered(w) \cap LinesOf(CallTask(c), w) # {}
                                      /\ alive[w]}) <= 1

C21_ListStep ==
  \A c \in Calls, w \in Skills :
    (Writes(w) /\ Written(w).by = CallTask(c) /\ call[c].op = "list") =>
      /\ \A v \in Skills : ~Reading(CallTask(c), v)
      /\ \A v \in Skills : alive[v] => Unanswered(v) \cap LinesOf(CallTask(c), v) = {}

C21_ListQueriesInTurn == []C21_ListState /\ [][C21_ListStep]_vars

\* A list_tools call waits for the response of the first skill while the
\* second skill runs, with its lock free, and has been sent nothing by it.
C21_Witness ==
  \E c \in Calls :
    /\ call[c].op = "list" /\ call[c].pc = "read"
    /\ Len(call[c].todo) = 2
    /\ alive[call[c].todo[1]] /\ alive[call[c].todo[2]]
    /\ SKILL_LOCKS[call[c].todo[2]] = NewLock
    /\ LinesOf(CallTask(c), call[c].todo[1]) # {}
    /\ LinesOf(CallTask(c), call[c].todo[2]) = {}

(***************************************************************************)
(* C22. TOOL_MAPPING is replaced as a whole, never mutated in place: a     *)
(* step that changes it installs the mapping of a finished                 *)
(* populate_tool_mapping, and a call_tool that resolves its target does    *)
(* so while no populate_tool_mapping is under way.                         *)
(***************************************************************************)
C22_ReplacedStep ==
  /\ TOOL_MAPPING' # TOOL_MAPPING => populate'.pc = "done"
  /\ \A c \in Calls :
       (call[c].op = "call" /\ call[c].pc = "wait" /\ call'[c].pc # "wait")
         => populate.pc \notin {"lock", "read"}

C22_IndexReplacedAsAWhole == [][C22_ReplacedStep]_vars

(***************************************************************************)
(* C22, as the code has it.  TOOL_MAPPING is filled in place, skill by     *)
(* skill, but only by the one populate_tool_mapping of startup, before     *)
(* STARTUP_EVENT is set, and it never changes afterwards; a call_tool      *)
(* that resolves its target does so with the event set, while no           *)
(* populate_tool_mapping is under way, and leaves the mapping as it is.    *)
(***************************************************************************)
C22_BuiltStep ==
  /\ TOOL_MAPPING' # TOOL_MAPPING =>
       /\ ~STARTUP_EVENT
       /\ pcStartup = "populating" /\ populate.pc = "read"
       /\ \A n \in DOMAIN TOOL_MAPPING :
            n \in DOMAIN TOOL_MAPPING' /\ TOOL_MAPPING'[n] \in {TOOL_MAPPING[n], Head(populate.todo)}
       /\ \A n \in DOMAIN TOOL_MAPPING' \ DOMAIN TOOL_MAPPING :
            TOOL_MAPPING'[n] = Head(populate.todo)
  /\ \A c \in Calls :
       (call[c].op = "call" /\ call[c].pc = "wait" /\ call'[c].pc # "wait") =>
         /\ STARTUP_EVENT
         /\ populate.pc \in {"none", "done"}
         /\ TOOL_MAPPING' = TOOL_MAPPING

C22_IndexBuiltBeforeReaders == [][C22_BuiltStep]_vars

\* A call_tool has resolved its target in a mapping that holds tools of
\* both skills, which populate_tool_mapping entered in two steps.
C22_Witness ==
  /\ \E c \in Calls : call[c].op = "call" /\ call[c].pc \in {"lock", "read", "done"}
                        /\ call[c].name \in DOMAIN TOOL_MAPPING
  /\ {TOOL_MAPPING[n] : n \in DOMAIN TOOL_MAPPING} = {"A", "B"}

(***************************************************************************)
(* C23. Spawn-failure containment: a spawn_skill that fails leaves only    *)
(* its own skill out of PROCESSES, MANIFESTS and SKILL_LOCKS; every skill  *)
(* whose spawn_skill succeeded is in all three, with a lock of its own;    *)
(* and once every spawn task has finished, failed or not, startup goes on  *)
(* to the handshakes, one for each registered skill and none for the       *)
(* others.                                                                 *)
(***************************************************************************)
C23_SpawnFailureContained ==
  /\ \A d \in Dirs :
       /\ spawnTask[d] = "done" =>
            /\ d \in Range(PROCESSES) /\ d \in MANIFESTS /\ d \in DOMAIN SKILL_LOCKS
            /\ Cardinality({i \in 1..Len(PROCESSES) : PROCESSES[i] = d}) = 1
       /\ spawnTask[d] # "done" =>
            d \notin Range(PROCESSES) /\ d \notin MANIFESTS /\ d \notin DOMAIN SKILL_LOCKS
  /\ (pcStartup = "spawning" /\ \A d \in Dirs : spawnTask[d] # "pending")
       => ENABLED StartupInitialize
  /\ (skillsDirExists /\ pcStartup \notin {"begin", "spawning"}) =>
       /\ \A d \in Dirs : spawnTask[d] = (IF HasManifest(d) THEN "done" ELSE "none")
                            \/ spawnTask[d] = "failed"
       /\ \A w \in Skills : (initTask[w] # "none") <=> (spawnTask[w] = "done")

\* The spawn of A failed; B is registered and its handshake has been
\* answered and is over.
C23_Witness ==
  /\ spawnTask["A"] = "failed"
  /\ spawnTask["B"] = "done"
  /\ PROCESSES = <<"B">>
  /\ initTask["B"] = "done" /\ initResult["B"] = "ok"
  /\ initTask["A"] = "none"

(***************************************************************************)
(* C24. Duplicate tool names: when populate_tool_mapping has finished,     *)
(* a name that skills reported to it is mapped to the last of them in the  *)
(* order of PROCESSES; and a call_tool of a name two skills reported is    *)
(* forwarded to the later one and writes nothing to the earlier one.       *)
(***************************************************************************)
\* The names populate_tool_mapping took from skill w's response.
IndexedTools(w) == DOMAIN MapTools(EmptyDict, Reported(w, PopulateTask), w)

\* The places in PROCESSES of the skills that reported name n.
ReportersOf(n) == {i \in 1..Len(PROCESSES) : n \in IndexedTools(PROCESSES[i])}

C24_LastReporterWins ==
  populate.pc = "done" =>
    /\ \A n \in DOMAIN TOOL_MAPPING :
         /\ ReportersOf(n) # {}
         /\ \A i \in ReportersOf(n) :
              (\A j \in ReportersOf(n) : j <= i) => TOOL_MAPPING[n] = PROCESSES[i]
    /\ \A c \in Calls :
         (/\ call[c].op = "call"
          /\ call[c].pc \in {"lock", "read", "done"}
          /\ Cardinality(ReportersOf(call[c].name)) = 2) =>
           /\ call[c].skill = PROCESSES[2]
           /\ LinesOf(CallTask(c), PROCESSES[1]) = {}
           /\ call[c].pc = "done" =>
                \E i \in LinesOf(CallTask(c), PROCESSES[2]) :
                  stdin[PROCESSES[2]][i] =
                    ToolsCallRequest(call[c].name, call[c].arguments, CallTask(c))

\* Both skills reported "d" to populate_tool_mapping, and a call_tool of
\* "d" has returned the content of the later one.
C24_Witness ==
  /\ populate.pc = "done"
  /\ Len(PROCESSES) = 2
  /\ ReportersOf("d") = {1, 2}
  /\ \E c \in Calls :
       /\ CallDone(c, "call")
       /\ call[c].name = "d"
       /\ call[c].result.kind = "content"
       /\ call[c].result.val[1] = PROCESSES[2]

(***************************************************************************)
(* C25. Lock release on every exit path: a skill's lock is held only by a  *)
(* task whose exchange with that skill is in progress; a task that has     *)
(* left "async with lock" (by a return, a continue or a handled            *)
(* exception) neither holds nor waits for a lock; and a step that ends     *)
(* an exchange frees the lock, whatever way it ends.                       *)
(***************************************************************************)
\* Task t has finished.
Finished(t) ==
  \/ \E w \in Skills : t = InitTask(w) /\ initTask[w] = "done"
  \/ t = PopulateTask /\ populate.pc = "done"
  \/ \E c \in Calls : t = CallTask(c) /\ call[c].pc = "done"

C25_LockState ==
  /\ \A w \in DOMAIN SKILL_LOCKS :
       SKILL_LOCKS[w].holder # NoTask => Reading(SKILL_LOCKS[w].holder, w)
  /\ \A t \in Tasks : Finished(t) => HoldsNoLock(t)

C25_LockStep ==
  \A t \in Tasks, w \in Skills :
    (Reading(t, w) /\ ~ReadingIn(t, w, initTask', populate', call'))
      => SKILL_LOCKS'[w].holder # t

C25_LockReleasedOnEveryExit == []C25_LockState /\ [][C25_LockStep]_vars

\* One call_tool ended by an exception of drain() and one by an empty
\* read, on the same skill; its lock is free again.
C25_Witness ==
  \E c1, c2 \in Calls :
    /\ CallDone(c1, "call") /\ call[c1].result.kind = "communicating"
    /\ CallDone(c2, "call") /\ call[c2].result.kind = "empty"
    /\ call[c1].skill = call[c2].skill
    /\ SKILL_LOCKS[call[c1].skill] = NewLock

(***************************************************************************)
(* C26. Frame: once STARTUP_EVENT is set, no step (of a list_tools, of a   *)
(* call_tool, of a skill) changes PROCESSES, MANIFESTS, the keys of        *)
(* SKILL_LOCKS or TOOL_MAPPING: no skill is added, removed or respawned    *)
(* and no entry of the mapping is added, removed or redirected; and a      *)
(* step of a list_tools or call_tool coroutine never does, at any time.    *)
(***************************************************************************)
C26_Unchanged ==
  /\ PROCESSES' = PROCESSES
  /\ MANIFESTS' = MANIFESTS
  /\ DOMAIN SKILL_LOCKS' = DOMAIN SKILL_LOCKS
  /\ TOOL_MAPPING' = TOOL_MAPPING
  /\ \A w \in Skills : alive'[w] => alive[w]

C26_FrameStep ==
  /\ STARTUP_EVENT => (C26_Unchanged /\ STARTUP_EVENT')
  /\ call' # call => C26_Unchanged

C26_RegistryAndIndexFixed == [][C26_FrameStep]_vars

\* After startup a list_tools and a call_tool have returned, a registered
\* skill has exited, and it is still registered and still mapped.
C26_Witness ==
  /\ STARTUP_EVENT
  /\ \E c1, c2 \in Calls : CallDone(c1, "list") /\ CallDone(c2, "call")
                            /\ call[c2].result.kind = "empty"
  /\ \E w \in Range(PROCESSES) :
       /\ ~alive[w]
       /\ w \in MANIFESTS /\ w \in DOMAIN SKILL_LOCKS
       /\ \E n \in DOMAIN TOOL_MAPPING : TOOL_MAPPING[n] = w

(***************************************************************************)
(* C27. Catalog and routing agree: a call_tool of a name that a finished   *)
(* list_tools has returned is forwarded to a skill, and is not answered    *)
(* "Unknown tool", whatever the skills did between startup and the call.   *)
(***************************************************************************)
C27_ListedStep ==
  \A c1, c2 \in Calls :
    (/\ CallDone(c1, "list")
     /\ call[c2].op = "call"
     /\ call[c2].pc = "wait" /\ call'[c2].pc # "wait"
     /\ call'[c2].name \in Range(call[c1].result.val))
      => /\ call'[c2].pc = "lock"
         /\ call'[c2].skill \in Range(PROCESSES)
         /\ call'[c2].result.kind # "unknown"

C27_ListedIsRoutable == [][C27_ListedStep]_vars

(***************************************************************************)
(* C28. No task holds the locks of two skills at once: a task holds or     *)
(* waits for at most one lock at any time, so the holder of a lock never   *)
(* waits for another lock.  And no state is a deadlock on the locks: the   *)
(* holder of a lock waits for its skill's line, not for a task, and a      *)
(* free lock with waiters can be taken by the first of them.               *)
(***************************************************************************)
\* The skills whose lock task t holds or waits for.
LocksOf(t) ==
  {w \in DOMAIN SKILL_LOCKS :
     SKILL_LOCKS[w].holder = t \/ t \in Range(SKILL_LOCKS[w].waiters)}

C28_OneLockPerTask ==
  /\ \A t \in Tasks : Cardinality(LocksOf(t)) <= 1
  /\ \A w \in DOMAIN SKILL_LOCKS :
       /\ SKILL_LOCKS[w].holder # NoTask =>
            /\ Reading(SKILL_LOCKS[w].holder, w)
            /\ \A v \in DOMAIN SKILL_LOCKS :
                 SKILL_LOCKS[w].holder \notin Range(SKILL_LOCKS[v].waiters)
       /\ (SKILL_LOCKS[w].holder = NoTask /\ SKILL_LOCKS[w].waiters # <<>>) =>
            ENABLED (/\ HubStep
                     /\ SKILL_LOCKS'[w].waiters = Tail(SKILL_LOCKS[w].waiters))

\* A list_tools call has finished with the first skill, whose lock is free
\* again, and queues for the lock of the second skill, which a call_tool
\* holds while it waits for that skill's line.
C28_Witness ==
  \E c1, c2 \in Calls :
    /\ Len(PROCESSES) = 2
    /\ call[c1].op = "list" /\ call[c1].pc = "lock"
    /\ call[c1].todo = <<PROCESSES[2]>>
    /\ LinesOf(CallTask(c1), PROCESSES[1]) # {}
    /\ Reading(CallTask(c2), PROCESSES[2])
    /\ SKILL_LOCKS[PROCESSES[2]].waiters = <<CallTask(c1)>>
    /\ SKILL_LOCKS[PROCESSES[1]] = NewLock

(***************************************************************************)
(* LiveSpec: the hub's steps are weakly fair, as in FairSpec, and every    *)
(* skill handles each line it is sent for as long as it runs (it answers   *)
(* a request with some line; it may also exit at any time).                *)
(***************************************************************************)
LiveSpec == Spec /\ WF_vars(HubStep) /\ \A w \in Skills : WF_vars(SkillHandle(w))

(***************************************************************************)
(* C29. Startup liveness: when every spawned skill answers each request    *)
(* with a line or closes its stdout, startup eventually sets               *)
(* STARTUP_EVENT, whatever the skills answer and also when no skill is     *)
(* registered; and the startup task never returns without having set it.   *)
(***************************************************************************)
C29_StartupCompletes ==
  /\ <>STARTUP_EVENT
  /\ [](pcStartup = "returned" => STARTUP_EVENT)

\* Startup is over although the handshake of one skill failed and the
\* other skill answered populate_tool_mapping with a line that is no
\* well-formed result.
C29_Witness ==
  /\ STARTUP_EVENT
  /\ pcStartup = "returned"
  /\ Len(PROCESSES) = 2
  /\ \E w \in Skills : initResult[w] = "failed"
  /\ \E w \in Skills : \E r \in AnswersTo(w, PopulateTask) : ~WellFormed(r)

(***************************************************************************)
(* C30. Invoke liveness: skill B answers every request with a line or      *)
(* closes its stdout (skill A may do anything, also stay silent).  Then    *)
(* in every state in which a call waits on B some step of B's exchange     *)
(* can be taken, and no call waits for ever for B's lock or for B's line:  *)
(* whenever calls wait on B, a state follows in which none does, each      *)
(* call_tool among them having returned and each list_tools having got     *)
(* past B (it returns when B is the last of its loop), however many of     *)
(* them queue on B.                                                        *)
(***************************************************************************)
\* Call c waits for w's lock or for w's line.
WaitsOn(c, w) == call[c].pc \in {"lock", "read"} /\ CallTarget(c) = w

\* While a call waits on B, a step that moves B's exchange on can be
\* taken: B handles a request, or a task of the hub takes or leaves B's lock.
C30_CanMoveOn ==
  \A c \in Calls :
    WaitsOn(c, "B") =>
      \/ ENABLED SkillHandle("B")
      \/ ENABLED (/\ HubStep
                  /\ SKILL_LOCKS'["B"] # SKILL_LOCKS["B"]
                  /\ Len(SKILL_LOCKS'["B"].waiters) <= Len(SKILL_LOCKS["B"].waiters))

\* A call that waits on B stops doing so only by returning or, for a
\* list_tools, by going on to the skill after B.
C30_LeaveStep ==
  \A c \in Calls :
    (WaitsOn(c, "B") /\ call'[c] # call[c] /\ call'[c].pc # "read") =>
      \/ call'[c].pc = "done"
      \/ /\ call[c].op = "list"
         /\ call'[c].pc = "lock"
         /\ call'[c].todo = Tail(call[c].todo)
         /\ "B" \notin Range(call'[c].todo)

====
